---- MODULE Spec2Model ----
(***************************************************************************)
(* Model of FAITH_BLOCKCHAIN_EMPIRE/Quantum_Crypto_Engineer/               *)
(* quantum_keygen.py: hex encoding of key and signature material, the      *)
(* sign_message / verify_signature wrappers around the pqcrypto Dilithium5 *)
(* primitive, and the key-file write of the __main__ block.                *)
(*                                                                         *)
(* Text (str) is a sequence of one-character strings for hex material and  *)
(* a sequence of Unicode code points for messages; bytes are sequences of  *)
(* 0..255.  The outcome of a Python call is a record: kind "returned" with *)
(* its value, or kind "raised" with the exception class and its origin.    *)
(***************************************************************************)
EXTENDS Integers, Sequences, FiniteSets, TLC

VARIABLES
    api,      \* which signature API the imported primitive has
    keys,     \* the dict returned by generate_quantum_keypair, or NoKeys
    signed,   \* the last sign_message call and its outcome
    v,        \* the verify_signature call in progress or finished
    codec,    \* the last bytes.hex / bytes.fromhex call and its outcome
    ppc,      \* position of the __main__ block
    mainKeys, \* the `keys` local of the __main__ block
    todo,     \* the chunks json.dump has still to write
    disk,     \* what quantum_keys.json holds
    buf       \* text written to the file object and not yet flushed

vars == <<api, keys, signed, v, codec, ppc, mainKeys, todo, disk, buf>>

(***************************************************************************)
(* Bounds of the model.  The primitive's buffer lengths are scaled down    *)
(* from Dilithium5's (2592, 4864 and 4595 bytes), and the capacity of the  *)
(* file buffer (8192 characters) with them: as with the real sizes, it     *)
(* holds the record's text up to the secret key's value and not all of it. *)
(***************************************************************************)
PK_LEN == 2
SK_LEN == 3
SIG_LEN == 2
NumKeys == 2
MaxMsgLen == 1
MaxHexLen == 4
MaxBytesLen == 2
BufCap == 44

Returned(val) == [kind |-> "returned", val |-> val, exc |-> "none", why |-> "none"]
Raised(exc, why) == [kind |-> "raised", val |-> <<>>, exc |-> exc, why |-> why]

RECURSIVE SeqsUpTo(_, _)
SeqsUpTo(S, n) ==
    IF n = 0 THEN {<<>>}
    ELSE LET shorter == SeqsUpTo(S, n - 1)
         IN  shorter \cup {Append(s, x) : s \in shorter, x \in S}

(***************************************************************************)
(* bytes.hex() and bytes.fromhex()                                         *)
(***************************************************************************)
HexDigits == <<"0", "1", "2", "3", "4", "5", "6", "7",
               "8", "9", "a", "b", "c", "d", "e", "f">>

\* The value of a hexadecimal digit of either case; 16 for any other character.
DigitValue(c) ==
    CASE c = "0" -> 0 [] c = "1" -> 1 [] c = "2" -> 2 [] c = "3" -> 3
      [] c = "4" -> 4 [] c = "5" -> 5 [] c = "6" -> 6 [] c = "7" -> 7
      [] c = "8" -> 8 [] c = "9" -> 9
      [] c \in {"a", "A"} -> 10 [] c \in {"b", "B"} -> 11
      [] c \in {"c", "C"} -> 12 [] c \in {"d", "D"} -> 13
      [] c \in {"e", "E"} -> 14 [] c \in {"f", "F"} -> 15
      [] OTHER -> 16

\* ASCII whitespace, which bytes.fromhex skips between bytes.
IsSpace(c) == c \in {" ", "\t", "\n", "\r"}

\* bytes.hex(): two lowercase digits per byte, high nibble first.
RECURSIVE ToHex(_)
ToHex(b) ==
    IF b = <<>> THEN <<>>
    ELSE <<HexDigits[(Head(b) \div 16) + 1], HexDigits[(Head(b) % 16) + 1]>>
         \o ToHex(Tail(b))

\* The scan of bytes.fromhex from position i with the bytes acc read so far:
\* skip a run of whitespace, then read exactly two adjacent digits.
RECURSIVE FromHexAt(_, _, _)
FromHexAt(s, i, acc) ==
    IF i > Len(s) THEN Returned(acc)
    ELSE IF IsSpace(s[i]) THEN FromHexAt(s, i + 1, acc)
    ELSE IF DigitValue(s[i]) >= 16 THEN Raised("ValueError", "fromhex")
    ELSE IF i + 1 > Len(s) \/ DigitValue(s[i + 1]) >= 16
         THEN Raised("ValueError", "fromhex")
    ELSE FromHexAt(s, i + 2,
                   Append(acc, 16 * DigitValue(s[i]) + DigitValue(s[i + 1])))

FromHex(s) == FromHexAt(s, 1, <<>>)

(***************************************************************************)
(* str.encode() and bytes.decode(), both UTF-8 and strict                  *)
(***************************************************************************)
IsSurrogate(cp) == cp >= 55296 /\ cp <= 57343

Utf8Char(cp) ==
    IF cp < 128 THEN <<cp>>
    ELSE IF cp < 2048 THEN <<192 + (cp \div 64), 128 + (cp % 64)>>
    ELSE <<224 + (cp \div 4096), 128 + ((cp \div 64) % 64), 128 + (cp % 64)>>

RECURSIVE Utf8EncodeAt(_, _, _)
Utf8EncodeAt(m, i, acc) ==
    IF i > Len(m) THEN Returned(acc)
    ELSE IF IsSurrogate(m[i]) THEN Raised("UnicodeEncodeError", "encode")
    ELSE Utf8EncodeAt(m, i + 1, acc \o Utf8Char(m[i]))

Utf8Encode(m) == Utf8EncodeAt(m, 1, <<>>)

IsCont(b, i) == i <= Len(b) /\ b[i] >= 128 /\ b[i] < 192

RECURSIVE Utf8DecodeAt(_, _, _)
Utf8DecodeAt(b, i, acc) ==
    IF i > Len(b) THEN Returned(acc)
    ELSE IF b[i] < 128 THEN Utf8DecodeAt(b, i + 1, Append(acc, b[i]))
    ELSE IF b[i] >= 194 /\ b[i] < 224 /\ IsCont(b, i + 1)
         THEN Utf8DecodeAt(b, i + 2,
                  Append(acc, (b[i] - 192) * 64 + (b[i + 1] - 128)))
    ELSE IF b[i] >= 224 /\ b[i] < 240 /\ IsCont(b, i + 1) /\ IsCont(b, i + 2)
         THEN LET cp == (b[i] - 224) * 4096 + (b[i + 1] - 128) * 64
                        + (b[i + 2] - 128)
              IN  IF cp < 2048 \/ IsSurrogate(cp)
                  THEN Raised("UnicodeDecodeError", "decode")
                  ELSE Utf8DecodeAt(b, i + 3, Append(acc, cp))
    ELSE Raised("UnicodeDecodeError", "decode")

Utf8Decode(b) == Utf8DecodeAt(b, 1, <<>>)

(***************************************************************************)
(* The imported primitive (pqcrypto.sign.dilithium5).  Its arithmetic is   *)
(* abstracted: key pair number k has public key PkOf(k) and secret key     *)
(* SkOf(k), and the signature of a message under a key is a tag of SIG_LEN *)
(* bytes fixed by the key and the message.  api = "detached" is pqcrypto's *)
(* interface, sign(sk, msg) -> sig and verify(pk, msg, sig) -> bool;       *)
(* api = "open" is the interface the two-argument call of verify_signature *)
(* presumes, sign(sk, msg) -> signed message and verify(pk, signed         *)
(* message) -> msg, raising on an invalid one.                             *)
(***************************************************************************)
Apis == {"detached", "open"}

PkOf(k) == [i \in 1..PK_LEN |-> k]
SkOf(k) == [i \in 1..SK_LEN |-> 128 + k]

RECURSIVE SumBytes(_)
SumBytes(b) == IF b = <<>> THEN 0 ELSE Head(b) + SumBytes(Tail(b))

SigTag(k, msg) ==
    [i \in 1..SIG_LEN |->
        IF i = 1 THEN k % 256 ELSE (SumBytes(msg) + 7 * Len(msg) + i) % 256]

generate_keypair(k) == <<PkOf(k), SkOf(k)>>

\* sign(secret_key, message): the primitive refuses a key of the wrong length.
sign(secret_key, message) ==
    IF Len(secret_key) # SK_LEN THEN Raised("ValueError", "key_length")
    ELSE LET tag == SigTag(secret_key[1] - 128, message)
         IN  IF api = "detached" THEN Returned(tag)
             ELSE Returned(tag \o message)

\* verify(public_key, signature), as verify_signature calls it: with two
\* positional arguments.  The detached interface has three required
\* parameters, so the call itself raises TypeError.
verify(public_key, signature) ==
    IF api = "detached" THEN Raised("TypeError", "arity")
    ELSE IF Len(public_key) # PK_LEN THEN Raised("ValueError", "key_length")
    ELSE IF Len(signature) < SIG_LEN THEN Raised("ValueError", "invalid_signature")
    ELSE LET tag  == SubSeq(signature, 1, SIG_LEN)
             body == SubSeq(signature, SIG_LEN + 1, Len(signature))
         IN  IF tag = SigTag(public_key[1], body) THEN Returned(body)
             ELSE Raised("ValueError", "invalid_signature")

(***************************************************************************)
(* quantum_keygen.py                                                       *)
(***************************************************************************)
NoKeys == [public_key |-> <<"-">>, secret_key |-> <<"-">>]

generate_quantum_keypair(k) ==
    LET pair == generate_keypair(k)
    IN  [public_key |-> ToHex(pair[1]), secret_key |-> ToHex(pair[2])]

\* sign_message with the primitive's exception swallowed, as the bare except
\* of verify_signature does: an empty signature comes back.
sign_message_swallowing(message, secret_key_hex) ==
    LET secret_key == FromHex(secret_key_hex)
    IN  IF secret_key.kind = "raised" THEN secret_key
        ELSE LET data == Utf8Encode(message)
             IN  IF data.kind = "raised" THEN data
                 ELSE LET signature == sign(secret_key.val, data.val)
                      IN  IF signature.kind = "raised" THEN Returned(<<>>)
                          ELSE Returned(ToHex(signature.val))

sign_message(message, secret_key_hex) ==
    LET secret_key == FromHex(secret_key_hex)
    IN  IF secret_key.kind = "raised" THEN secret_key
        ELSE LET data == Utf8Encode(message)
             IN  IF data.kind = "raised" THEN data
                 ELSE LET signature == sign(secret_key.val, data.val)
                      IN  IF signature.kind = "raised" THEN signature
                          ELSE Returned(ToHex(signature.val))

\* Inputs of the calls.
CodePoints == {97, 233, 55296}
Messages == SeqsUpTo(CodePoints, MaxMsgLen)

DropLast(s, n) == SubSeq(s, 1, Len(s) - n)
FlipFirst(s) ==
    IF s = <<>> THEN s
    ELSE <<IF s[1] = "0" THEN "1" ELSE "0">> \o Tail(s)

SecretKeyInputs ==
    IF keys = NoKeys THEN {}
    ELSE {keys.secret_key, DropLast(keys.secret_key, 2),
          DropLast(keys.secret_key, 1), keys.secret_key \o <<" ">>,
          keys.secret_key \o <<"0", "0">>}

\* The last signature and damaged copies of it, and the primitive's signature
\* of the one byte 255, which is not UTF-8 text.
SignatureInputs ==
    IF signed.out.kind # "returned" THEN {<<"z", "z">>}
    ELSE {signed.out.val, FlipFirst(signed.out.val),
          DropLast(signed.out.val, 1), DropLast(signed.out.val, 2),
          ToHex(sign(FromHex(keys.secret_key).val, <<255>>).val)}

PublicKeyInputs ==
    {generate_quantum_keypair(k).public_key : k \in 1..NumKeys}
    \cup {generate_quantum_keypair(1).public_key \o <<"0", "0">>,
          DropLast(generate_quantum_keypair(1).public_key, 2),
          <<"g", "g">>}

NoCall == [kind |-> "none", val |-> <<>>, exc |-> "none", why |-> "none"]
NoSign == [message |-> <<>>, secret_key_hex |-> <<>>, out |-> NoCall]
NoVerify ==
    [pc |-> "idle", message |-> <<>>, signature_hex |-> <<>>,
     public_key_hex |-> <<>>, signature |-> <<>>, public_key |-> <<>>,
     prim |-> NoCall, out |-> NoCall]

\* The calls are synchronous: one starts only when no verification is in
\* progress or waiting to be read by the caller.
\* generate_quantum_keypair().  The record of the signature made with the
\* previous key pair is dropped.
Generate ==
    /\ v.pc = "idle"
    /\ \E k \in 1..NumKeys : keys' = generate_quantum_keypair(k)
    /\ signed' = NoSign
    /\ UNCHANGED <<api, v, codec, ppc, mainKeys, todo, disk, buf>>

\* sign_message(message, secret_key_hex)
Sign ==
    /\ v.pc = "idle"
    /\ \E message \in Messages, secret_key_hex \in SecretKeyInputs :
          signed' = [message |-> message, secret_key_hex |-> secret_key_hex,
                     out |-> sign_message(message, secret_key_hex)]
    /\ UNCHANGED <<api, keys, v, codec, ppc, mainKeys, todo, disk, buf>>

\* verify_signature(message, signature_hex, public_key_hex) is entered.
VerifyCall ==
    /\ v.pc = "idle"
    /\ \E message \in Messages, signature_hex \in SignatureInputs,
          public_key_hex \in PublicKeyInputs :
          v' = [NoVerify EXCEPT !.pc = "Decoding", !.message = message,
                                !.signature_hex = signature_hex,
                                !.public_key_hex = public_key_hex]
    /\ UNCHANGED <<api, keys, signed, codec, ppc, mainKeys, todo, disk, buf>>

\* The two bytes.fromhex calls moved inside the try block.
verify_decode_in_try(call) ==
    LET signature  == FromHex(call.signature_hex)
        public_key == FromHex(call.public_key_hex)
    IN  IF signature.kind = "raised" \/ public_key.kind = "raised"
        THEN [call EXCEPT !.pc = "done", !.out = Returned(FALSE)]
        ELSE [call EXCEPT !.pc = "PrimitiveVerify",
                          !.signature = signature.val,
                          !.public_key = public_key.val]

\* Lines 24-25: the two bytes.fromhex calls, outside the try block.
verify_decode(call) ==
    LET signature  == FromHex(call.signature_hex)
        public_key == FromHex(call.public_key_hex)
    IN  IF signature.kind = "raised"
        THEN [call EXCEPT !.pc = "done", !.out = signature]
        ELSE IF public_key.kind = "raised"
        THEN [call EXCEPT !.pc = "done", !.out = public_key]
        ELSE [call EXCEPT !.pc = "PrimitiveVerify",
                          !.signature = signature.val,
                          !.public_key = public_key.val]

VerifyDecode ==
    /\ v.pc = "Decoding"
    /\ v' = verify_decode(v)
    /\ UNCHANGED <<api, keys, signed, codec, ppc, mainKeys, todo, disk, buf>>

\* Line 28 under the bare except of lines 30-31.
verify_primitive(call) ==
    LET original == verify(call.public_key, call.signature)
    IN  IF original.kind = "raised"
        THEN [call EXCEPT !.pc = "done", !.prim = original,
                          !.out = Returned(FALSE)]
        ELSE [call EXCEPT !.pc = "Compare", !.prim = original]

VerifyPrimitive ==
    /\ v.pc = "PrimitiveVerify"
    /\ v' = verify_primitive(v)
    /\ UNCHANGED <<api, keys, signed, codec, ppc, mainKeys, todo, disk, buf>>

\* Line 29 without the comparison with the message argument.
verify_compare_any_message(call) ==
    LET text == Utf8Decode(call.prim.val)
    IN  IF text.kind = "raised"
        THEN [call EXCEPT !.pc = "done", !.out = Returned(FALSE)]
        ELSE [call EXCEPT !.pc = "done", !.out = Returned(TRUE)]

\* Line 29 under the bare except of lines 30-31.
verify_compare(call) ==
    LET text == Utf8Decode(call.prim.val)
    IN  IF text.kind = "raised"
        THEN [call EXCEPT !.pc = "done", !.out = Returned(FALSE)]
        ELSE [call EXCEPT !.pc = "done",
                          !.out = Returned(text.val = call.message)]

VerifyCompare ==
    /\ v.pc = "Compare"
    /\ v' = verify_compare(v)
    /\ UNCHANGED <<api, keys, signed, codec, ppc, mainKeys, todo, disk, buf>>

\* The caller has read the outcome of the finished verification.
VerifyReturn ==
    /\ v.pc = "done"
    /\ v' = NoVerify
    /\ UNCHANGED <<api, keys, signed, codec, ppc, mainKeys, todo, disk, buf>>

Init ==
    /\ api \in Apis
    /\ keys = NoKeys
    /\ signed = NoSign
    /\ v = NoVerify
    /\ codec = [op |-> "none", arg |-> <<>>, out |-> NoCall]
    /\ ppc = "start"
    /\ mainKeys = NoKeys
    /\ todo = <<>>
    /\ disk = <<>>
    /\ buf = <<>>

Next ==
    \/ Generate
    \/ Sign
    \/ VerifyCall
    \/ VerifyDecode
    \/ VerifyPrimitive
    \/ VerifyCompare
    \/ VerifyReturn

Spec == Init /\ [][Next]_vars

(***************************************************************************)
(* Properties of signing and verification, checked under Spec              *)
(***************************************************************************)
Finished == v.pc = "done"
ReturnedTrue == v.out.kind = "returned" /\ v.out.val = TRUE
ReturnedFalse == v.out.kind = "returned" /\ v.out.val = FALSE

\* The finished verification took the signature sign_message returned for
\* the generated secret key, and the generated public key.
Genuine ==
    /\ Finished
    /\ keys # NoKeys
    /\ signed.out.kind = "returned"
    /\ signed.secret_key_hex = keys.secret_key
    /\ v.signature_hex = signed.out.val
    /\ v.public_key_hex = keys.public_key

DecodedPublicKey == FromHex(v.public_key_hex)
DecodedSignature == FromHex(v.signature_hex)
DecodedSecretKey == FromHex(signed.secret_key_hex)

ShapeOk ==
    /\ Len(v.public_key) = PK_LEN
    /\ IF api = "detached" THEN Len(v.signature) = SIG_LEN
       ELSE Len(v.signature) >= SIG_LEN

\* C1: for every generated key pair (pk, sk) and every message m,
\* verify_signature(m, sign_message(m, sk), pk) returns True.
C1_SignVerifySoundness ==
    (Genuine /\ v.message = signed.message) => ReturnedTrue

\* C2: a verification given a well-formed hex public key whose decoded length
\* is not PK_LEN ends in an error raised to the caller, never in False.
C2_WrongLengthKeyIsStructuralError ==
    (/\ Finished
     /\ DecodedPublicKey.kind = "returned"
     /\ Len(DecodedPublicKey.val) # PK_LEN)
    => v.out.kind = "raised"

\* C3: the primitive's verify is invoked only in a call whose decoding and
\* shape check passed, and a call whose decoding or shape check failed ends
\* rejected as malformed (an error), while every other call ends in True or
\* False.
C3_PrimitiveOnlyAfterShapeCheck ==
    /\ v.prim.kind # "none" => (v.pc \in {"Compare", "done"} /\ ShapeOk)
    /\ Finished =>
          IF /\ DecodedSignature.kind = "returned"
             /\ DecodedPublicKey.kind = "returned"
             /\ Len(DecodedPublicKey.val) = PK_LEN
          THEN v.out.kind = "returned"
          ELSE v.out.kind = "raised" /\ v.prim.kind = "none"

\* C5: for every generated key pair (pk, sk) and messages m # m',
\* verify_signature(m', sign_message(m, sk), pk) returns False.
C5_MessageTamperRejection ==
    (Genuine /\ v.message # signed.message) => ReturnedFalse

\* A tampered message was rejected by the comparison of line 29, after the
\* primitive had accepted the signature.
C5_Witness ==
    /\ Genuine
    /\ v.message # signed.message
    /\ v.prim.kind = "returned"
    /\ ReturnedFalse

C10_VerifyOutcome ==
    Finished =>
       /\ ReturnedTrue =>
             /\ v.prim.kind = "returned"
             /\ Utf8Decode(v.prim.val).kind = "returned"
             /\ Utf8Decode(v.prim.val).val = v.message
       /\ (DecodedSignature.kind = "returned" /\ DecodedPublicKey.kind = "returned")
             => /\ v.out.kind = "returned"
                /\ v.prim.kind = "raised" => ReturnedFalse
                /\ (v.prim.kind = "returned"
                    /\ Utf8Decode(v.prim.val).kind = "raised") => ReturnedFalse
       /\ (DecodedSignature.kind = "raised" \/ DecodedPublicKey.kind = "raised")
             => /\ v.out.kind = "raised"
                /\ v.out.exc = "ValueError"
                /\ v.prim.kind = "none"

\* A verification returned True: the primitive returned bytes that decode to
\* the message argument.
C10_Witness ==
    /\ Finished
    /\ ReturnedTrue
    /\ v.prim.kind = "returned"

(***************************************************************************)
(* The hex layer on its own: SpecHex applies bytes.hex and bytes.fromhex   *)
(* to every input within the bounds.                                       *)
(***************************************************************************)
ByteSamples == {0, 10, 171, 255}
HexAlphabet == {"0", "9", "a", "F", "g", " ", "\n"}
ByteSeqs == SeqsUpTo(ByteSamples, MaxBytesLen)
HexStrings == SeqsUpTo(HexAlphabet, MaxHexLen)

\* public_key.hex(), secret_key.hex(), signature.hex()
Encode ==
    /\ codec.op = "none"
    /\ \E b \in ByteSeqs :
          codec' = [op |-> "hex", arg |-> b, out |-> Returned(ToHex(b))]
    /\ UNCHANGED <<api, keys, signed, v, ppc, mainKeys, todo, disk, buf>>

\* bytes.fromhex(secret_key_hex), bytes.fromhex(signature_hex), ...
Decode ==
    /\ codec.op = "none"
    /\ \E s \in HexStrings :
          codec' = [op |-> "fromhex", arg |-> s, out |-> FromHex(s)]
    /\ UNCHANGED <<api, keys, signed, v, ppc, mainKeys, todo, disk, buf>>

\* The caller has read the outcome of the call.
CodecReturn ==
    /\ codec.op # "none"
    /\ codec' = [op |-> "none", arg |-> <<>>, out |-> NoCall]
    /\ UNCHANGED <<api, keys, signed, v, ppc, mainKeys, todo, disk, buf>>

NextHex ==
    \/ Encode
    \/ Decode
    \/ CodecReturn

SpecHex == Init /\ [][NextHex]_vars

\* str.lower() on the characters of the alphabet.
LowerChar(c) ==
    CASE c = "A" -> "a" [] c = "B" -> "b" [] c = "C" -> "c"
      [] c = "D" -> "d" [] c = "E" -> "e" [] c = "F" -> "f"
      [] OTHER -> c

Lower(s) == [i \in 1..Len(s) |-> LowerChar(s[i])]

\* C7: bytes.fromhex raises for every input string that has odd length or
\* holds a character outside [0-9a-fA-F], whitespace included.
C7_DecodeRejectsMalformed ==
    (/\ codec.op = "fromhex"
     /\ \/ Len(codec.arg) % 2 = 1
        \/ \E i \in 1..Len(codec.arg) : DigitValue(codec.arg[i]) >= 16)
    => codec.out.kind = "raised"

\* C8: fromhex(hex(b)) = b for every byte sequence b, hex(b) is lowercase and
\* twice as long as b, and hex(fromhex(s)) = lower(s) for every string s
\* that fromhex accepts.
C8_RoundTrip ==
    /\ codec.op = "hex" =>
          /\ FromHex(codec.out.val).kind = "returned"
          /\ FromHex(codec.out.val).val = codec.arg
          /\ Len(codec.out.val) = 2 * Len(codec.arg)
          /\ Lower(codec.out.val) = codec.out.val
    /\ (codec.op = "fromhex" /\ codec.out.kind = "returned") =>
          ToHex(codec.out.val) = Lower(codec.arg)

(***************************************************************************)
(* The __main__ block: the key pair is generated and written to            *)
(* quantum_keys.json through a buffered text file.  Text is a sequence of  *)
(* pieces: a punctuation or key-name string, or one character of a value.  *)
(***************************************************************************)
PieceLen(p) ==
    CASE p \in {"\"public_key\"", "\"secret_key\""} -> 12
      [] p = ",\n  " -> 4
      [] p = "\n  " -> 3
      [] p = ": " -> 2
      [] OTHER -> 1

RECURSIVE TextLen(_)
TextLen(t) == IF t = <<>> THEN 0 ELSE PieceLen(Head(t)) + TextLen(Tail(t))

\* The chunks json.dump(keys, f, indent=2) passes to f.write, in order.
JsonChunks(d) ==
    << <<"{">>, <<"\n  ">>, <<"\"public_key\"">>, <<": ">>,
       <<"\"">> \o d.public_key \o <<"\"">>,
       <<",\n  ">>, <<"\"secret_key\"">>, <<": ">>,
       <<"\"">> \o d.secret_key \o <<"\"">>,
       <<"\n">>, <<"}">> >>

RECURSIVE Concat(_)
Concat(chunks) ==
    IF chunks = <<>> THEN <<>> ELSE Head(chunks) \o Concat(Tail(chunks))

JsonText(d) == Concat(JsonChunks(d))

\* Line 36
MainGenerate ==
    /\ ppc = "start"
    /\ \E k \in 1..NumKeys : mainKeys' = generate_quantum_keypair(k)
    /\ ppc' = "open"
    /\ UNCHANGED <<api, keys, signed, v, codec, todo, disk, buf>>

\* Line 38: open(..., 'w') truncates the file.
MainOpen ==
    /\ ppc = "open"
    /\ disk' = <<>>
    /\ buf' = <<>>
    /\ todo' = JsonChunks(mainKeys)
    /\ ppc' = "dump"
    /\ UNCHANGED <<api, keys, signed, v, codec, mainKeys>>

\* Line 39: one f.write(chunk) of json.dump.  Buffered text that the chunk
\* would push over the capacity is written out first; a chunk larger than
\* the capacity is written out itself.
MainWrite ==
    /\ ppc = "dump"
    /\ todo # <<>>
    /\ LET chunk == Head(todo)
       IN  IF buf # <<>> /\ TextLen(buf) + TextLen(chunk) > BufCap
           THEN disk' = disk \o buf /\ buf' = <<>> /\ todo' = todo
           ELSE IF TextLen(chunk) > BufCap
           THEN disk' = disk \o chunk /\ buf' = buf /\ todo' = Tail(todo)
           ELSE disk' = disk /\ buf' = buf \o chunk /\ todo' = Tail(todo)
    /\ UNCHANGED <<api, keys, signed, v, codec, ppc, mainKeys>>

\* Leaving the with block closes the file, which writes out the buffer.
MainClose ==
    /\ ppc = "dump"
    /\ todo = <<>>
    /\ disk' = disk \o buf
    /\ buf' = <<>>
    /\ ppc' = "done"
    /\ UNCHANGED <<api, keys, signed, v, codec, mainKeys, todo>>

\* The process is killed during the write: the buffered text is lost.
MainKilled ==
    /\ ppc = "dump"
    /\ buf' = <<>>
    /\ todo' = <<>>
    /\ ppc' = "killed"
    /\ UNCHANGED <<api, keys, signed, v, codec, mainKeys, disk>>

\* An exception is raised inside the with block (an OSError of f.write, a
\* KeyboardInterrupt): leaving the block closes the file, which writes out
\* the buffer, and the exception propagates.
MainInterrupted ==
    /\ ppc = "dump"
    /\ disk' = disk \o buf
    /\ buf' = <<>>
    /\ todo' = <<>>
    /\ ppc' = "failed"
    /\ UNCHANGED <<api, keys, signed, v, codec, mainKeys>>

\* The script is run again.
MainRerun ==
    /\ ppc \in {"done", "killed", "failed"}
    /\ ppc' = "start"
    /\ mainKeys' = NoKeys
    /\ UNCHANGED <<api, keys, signed, v, codec, todo, disk, buf>>

NextPersist ==
    \/ MainGenerate
    \/ MainOpen
    \/ MainWrite
    \/ MainClose
    \/ MainKilled
    \/ MainInterrupted
    \/ MainRerun

SpecPersist == Init /\ [][NextPersist]_vars

\* C6: in every state of the write, a kill at any point included, the key
\* file holds either the complete record of both fields or no part of it.
C6_PersistAtomic ==
    \/ disk = <<>>
    \/ \E k \in 1..NumKeys : disk = JsonText(generate_quantum_keypair(k))

====
